---- MODULE Spec2Model ----
(***************************************************************************)
(* Model of main.py: the UVM assembler (UVMAssembler.assemble and          *)
(* parse_instruction) and the UVM interpreter (UVMInterpreter.run,         *)
(* execute_instruction and write_results).                                 *)
(*                                                                         *)
(* A source line is modelled after line.strip() as the sequence of its     *)
(* whitespace separated tokens; a token is an integer literal, a word that *)
(* int() rejects, or a word starting with '#'.  Bytes are integers 0..255. *)
(***************************************************************************)
EXTENDS Integers, Sequences, FiniteSets, TLC

VARIABLES
    source,        \* the lines of the input file of assemble()
    asm_pc,        \* position of assemble(): "none", "init", "loop", "done", "aborted"
    line_no,       \* number of lines the for loop of assemble() has consumed
    binary_file,   \* the bytes of the binary file
    log_file,      \* the rows of the assembler's CSV log
    stdout,        \* the error reports printed by assemble(), as line numbers
    asm_exc,       \* the exception that left assemble(), or "none"
    run_pc,        \* position of the interpreter: "none", "run", "halted", "failed"
    pos,           \* read position in the binary file
    registers,     \* UVMInterpreter.registers
    memory,        \* UVMInterpreter.memory
    memory_range,  \* UVMInterpreter.memory_range
    result_file,   \* the rows of the interpreter's CSV result
    run_exc,       \* the exception that left run(), or "none"
    executed,      \* history: the chunks passed to execute_instruction, in order
    history        \* observer: when on, the states each interpreter instance went through

vars == <<source, asm_pc, line_no, binary_file, log_file, stdout, asm_exc,
          run_pc, pos, registers, memory, memory_range, result_file, run_exc,
          executed, history>>

asm_vars == <<source, asm_pc, line_no, binary_file, log_file, stdout, asm_exc>>

run_vars == <<run_pc, pos, registers, memory, memory_range, result_file,
              run_exc, executed, history>>

-----------------------------------------------------------------------------
(* Program constants *)

MemSize == 1024

NumRegs == 8

ChunkSize == 4

(* Bounds of the model *)

MaxLines == 3

MaxStream == 5

-----------------------------------------------------------------------------
(* Tokens and lines *)

I(n) == [kind |-> "int", val |-> n]

W == [kind |-> "word", val |-> 0]

H == [kind |-> "hash", val |-> 0]

\* The lines the bounded programs are built from.
Lines ==
    { <<I(41), I(0), I(5)>>,        \* LOAD_CONST reg 0 <- 5
      <<I(41), I(3), I(300)>>,      \* LOAD_CONST reg 3 <- 300
      <<I(79), I(1), I(10)>>,       \* READ_MEM reg 1 <- memory[10]
      <<I(168), I(10), I(7)>>,      \* WRITE_MEM memory[10] <- 7
      <<I(168), I(2000), I(7)>>,    \* WRITE_MEM to a u16 address beyond the memory
      <<I(226), I(0), I(3)>>,       \* POPCNT
      <<I(201)>>,                   \* RESET_REGS
      <<I(4), I(3), I(0)>>,         \* STORE_REG_INDIRECT
      <<I(999), I(1), I(2)>>,       \* unknown opcode
      << >>,                        \* blank line
      <<H, W>>,                     \* comment line
      <<I(41), W, I(1)>>,           \* non-numeric operand
      <<I(41), I(0)>>,              \* too few operands
      <<I(41), I(0), I(5), I(9)>>,  \* too many operands
      <<I(41), I(0), I(65536)>>,    \* constant wider than 16 bits
      <<I(41), I(9), I(5)>>,        \* register index 9
      <<I(226), I(1), I(8)>>        \* register index 8 in a packed byte
    }

\* The programs of the specification's testable properties.
Examples ==
    { << <<I(41), I(0), I(100)>>, <<I(999), I(1), I(2)>>, <<I(201)>> >>,
      << <<I(41), I(0), I(7)>>, <<I(41), I(1), I(10)>>, <<I(226), I(0), I(1)>> >>,
      << << >>, <<H, W>>, << >> >> }

RECURSIVE SeqsUpTo(_, _)
SeqsUpTo(S, n) ==
    IF n = 0 THEN { << >> }
    ELSE LET shorter == SeqsUpTo(S, n - 1)
         IN  shorter \cup { Append(s, x) : s \in { t \in shorter : Len(t) = n - 1 }, x \in S }

Programs == SeqsUpTo(Lines, MaxLines) \cup Examples

\* The operand values of the codec's instructions: the ends of each declared range
\* and values on both sides of a byte boundary.
CodecRegs == 0..7

CodecWords == {0, 1, 255, 256, 300, 1023, 65535}

CodecBytes == {0, 1, 7, 255}

CodecLines ==
    { <<I(op), I(r), I(w)>> : op \in {41, 79}, r \in CodecRegs, w \in CodecWords }
    \cup { <<I(168), I(w), I(v)>> : w \in CodecWords, v \in CodecBytes }
    \cup { <<I(op), I(r1), I(r2)>> : op \in {226, 4}, r1 \in CodecRegs, r2 \in CodecRegs }
    \cup { <<I(201)>> }

\* The byte values the raw streams are built from.
RawBytes == {0, 4, 41, 168, 201, 226}

RawStreams == SeqsUpTo(RawBytes, MaxStream)

\* The memory ranges a caller asks the report for.
MemoryRanges == { <<0, 10>>, <<1023, 1024>> }

-----------------------------------------------------------------------------
(* Python integer operators *)

\* x & y on non-negative integers.
RECURSIVE AndNat(_, _)
AndNat(x, y) ==
    IF x = 0 \/ y = 0 THEN 0
    ELSE (IF x % 2 = 1 /\ y % 2 = 1 THEN 1 ELSE 0) + 2 * AndNat(x \div 2, y \div 2)

\* x & ~y on non-negative integers.
RECURSIVE AndNotNat(_, _)
AndNotNat(x, y) ==
    IF x = 0 THEN 0
    ELSE (IF x % 2 = 1 /\ y % 2 = 0 THEN 1 ELSE 0) + 2 * AndNotNat(x \div 2, y \div 2)

\* x | y on non-negative integers.
RECURSIVE OrNat(_, _)
OrNat(x, y) ==
    IF x = 0 THEN y
    ELSE IF y = 0 THEN x
    ELSE (IF x % 2 = 1 \/ y % 2 = 1 THEN 1 ELSE 0) + 2 * OrNat(x \div 2, y \div 2)

\* Python's x | y on unbounded two's complement integers: ~x = -1 - x.
BitOr(x, y) ==
    IF x >= 0 /\ y >= 0 THEN OrNat(x, y)
    ELSE IF x < 0 /\ y < 0 THEN -1 - AndNat(-1 - x, -1 - y)
    ELSE IF x < 0 THEN -1 - AndNotNat(-1 - x, y)
    ELSE -1 - AndNotNat(-1 - y, x)

\* Python's x << 3.
Shl3(x) == x * 8

\* Python's (b >> 3) & 0b111 and b & 0b111 on a byte.
HighReg(b) == AndNat(b \div 8, 7)

LowReg(b) == AndNat(b, 7)

\* bin(x).count('1') for x >= 0.
RECURSIVE popcount(_)
popcount(x) == IF x = 0 THEN 0 ELSE (x % 2) + popcount(x \div 2)

\* A Python list index: negative indices count from the end.
PyIndexOk(i, n) == -n <= i /\ i < n

PyIndex(i, n) == IF i < 0 THEN i + n ELSE i

-----------------------------------------------------------------------------
(* struct.pack: a value outside its field's range raises struct.error *)

StructError == [exc |-> "struct.error", bytes |-> << >>]

\* The 16 bit field written high byte first, as format '>BHB' would.
pack_BHB_big_endian(b0, h, b1) ==
    IF b0 \in 0..255 /\ h \in 0..65535 /\ b1 \in 0..255
    THEN [exc |-> "none", bytes |-> <<b0, h \div 256, h % 256, b1>>]
    ELSE StructError

pack_BHB(b0, h, b1) ==
    IF b0 \in 0..255 /\ h \in 0..65535 /\ b1 \in 0..255
    THEN [exc |-> "none", bytes |-> <<b0, h % 256, h \div 256, b1>>]
    ELSE StructError

pack_BB(b0, b1) ==
    IF b0 \in 0..255 /\ b1 \in 0..255
    THEN [exc |-> "none", bytes |-> <<b0, b1>>]
    ELSE StructError

pack_B(b0) ==
    IF b0 \in 0..255 THEN [exc |-> "none", bytes |-> <<b0>>] ELSE StructError

\* The high byte of the 16 bit field shifted by 16 bits.
unpack_HB_wide_shift(data) ==
    IF Len(data) = 3
    THEN [exc |-> "none", h |-> data[1] + 65536 * data[2], b |-> data[3]]
    ELSE [exc |-> "struct.error", h |-> 0, b |-> 0]

\* struct.unpack('<HB', data): data must be exactly 3 bytes long.
unpack_HB(data) ==
    IF Len(data) = 3
    THEN [exc |-> "none", h |-> data[1] + 256 * data[2], b |-> data[3]]
    ELSE [exc |-> "struct.error", h |-> 0, b |-> 0]

-----------------------------------------------------------------------------
(* UVMAssembler.parse_instruction *)

\* int(parts[i]), parts indexed from 0 as in the source.
IntPart(parts, i) ==
    IF Len(parts) < i + 1 THEN [exc |-> "IndexError", val |-> 0]
    ELSE IF parts[i + 1].kind # "int" THEN [exc |-> "ValueError", val |-> 0]
    ELSE [exc |-> "none", val |-> parts[i + 1].val]

Raised(e) == [exc |-> e, binary |-> << >>, description |-> << >>]

Parsed(packed, description) ==
    IF packed.exc # "none" THEN Raised(packed.exc)
    ELSE [exc |-> "none", binary |-> packed.bytes, description |-> description]

\* The two operands of an instruction: int(parts[1]), then int(parts[2]).
Operands(parts) ==
    LET a == IntPart(parts, 1)
        b == IntPart(parts, 2)
    IN  IF a.exc # "none" THEN [exc |-> a.exc, a |-> 0, b |-> 0]
        ELSE IF b.exc # "none" THEN [exc |-> b.exc, a |-> 0, b |-> 0]
        ELSE [exc |-> "none", a |-> a.val, b |-> b.val]

LoadConst(register, constant) ==
    Parsed(pack_BHB(41, constant, register), <<"load_const", constant, register>>)

ReadMem(register, address) ==
    Parsed(pack_BHB(79, address, register), <<"read_mem", address, register>>)

WriteMem(address, value) ==
    Parsed(pack_BHB(168, address, value), <<"write_mem", value, address>>)

PackedRegs(reg_hi, reg_lo) == BitOr(Shl3(reg_hi), reg_lo)

Popcnt(register_b, register_c) ==
    Parsed(pack_BB(226, PackedRegs(register_b, register_c)),
           <<"popcnt", register_b, register_c>>)

ResetRegs == Parsed(pack_B(201), <<"reset_regs">>)

\* The description names reg2 as the value register and reg1 as the address register.
StoreRegIndirect(reg1, reg2) ==
    Parsed(pack_BB(4, PackedRegs(reg1, reg2)), <<"store_reg_indirect", reg2, reg1>>)

\* The if chain without its else branch: binary is unbound at the return.
parse_instruction_no_else(line) ==
    LET parts == line
        op == IntPart(parts, 0)
        opcode == op.val
        ops == Operands(parts)
    IN  IF op.exc # "none" THEN Raised(op.exc)
        ELSE IF opcode = 201 THEN ResetRegs
        ELSE IF opcode \notin {41, 79, 168, 226, 4} THEN Raised("UnboundLocalError")
        ELSE IF ops.exc # "none" THEN Raised(ops.exc)
        ELSE IF opcode = 41 THEN LoadConst(ops.a, ops.b)
        ELSE IF opcode = 79 THEN ReadMem(ops.a, ops.b)
        ELSE IF opcode = 168 THEN WriteMem(ops.a, ops.b)
        ELSE IF opcode = 226 THEN Popcnt(ops.a, ops.b)
        ELSE StoreRegIndirect(ops.a, ops.b)

parse_instruction(line) ==
    LET parts == line
        op == IntPart(parts, 0)
        opcode == op.val
        ops == Operands(parts)
    IN  IF op.exc # "none" THEN Raised(op.exc)
        ELSE IF opcode = 201 THEN ResetRegs
        ELSE IF opcode \notin {41, 79, 168, 226, 4} THEN Raised("ValueError")
        ELSE IF ops.exc # "none" THEN Raised(ops.exc)
        ELSE IF opcode = 41 THEN LoadConst(ops.a, ops.b)
        ELSE IF opcode = 79 THEN ReadMem(ops.a, ops.b)
        ELSE IF opcode = 168 THEN WriteMem(ops.a, ops.b)
        ELSE IF opcode = 226 THEN Popcnt(ops.a, ops.b)
        ELSE StoreRegIndirect(ops.a, ops.b)

-----------------------------------------------------------------------------
(* UVMAssembler.assemble *)

LogHeader == [instruction |-> << >>, binary |-> << >>, description |-> <<"header">>]

\* Only empty lines skipped.
Skipped_blank_only(line) == line = << >>

\* line.strip() is empty or starts with '#'.
Skipped(line) == line = << >> \/ line[1].kind = "hash"

\* The with statement opens the files and the CSV header is written.
AssembleOpen ==
    /\ asm_pc = "init"
    /\ asm_pc' = "loop"
    /\ binary_file' = << >>
    /\ log_file' = <<LogHeader>>
    /\ UNCHANGED <<source, line_no, stdout, asm_exc>>
    /\ UNCHANGED run_vars

\* The log row written before the line is known to assemble.
AssembleLine_logs_rejected ==
    /\ asm_pc = "loop"
    /\ line_no < Len(source)
    /\ LET line == source[line_no + 1]
           r == parse_instruction(line)
       IN  /\ line_no' = line_no + 1
           /\ IF Skipped(line)
              THEN UNCHANGED <<asm_pc, binary_file, log_file, stdout, asm_exc>>
              ELSE /\ log_file' = Append(log_file,
                                         [instruction |-> line, binary |-> r.binary,
                                          description |-> r.description])
                   /\ IF r.exc = "none"
                      THEN /\ binary_file' = binary_file \o r.binary
                           /\ UNCHANGED <<asm_pc, stdout, asm_exc>>
                      ELSE IF r.exc = "ValueError"
                      THEN /\ stdout' = Append(stdout, line_no + 1)
                           /\ UNCHANGED <<asm_pc, binary_file, asm_exc>>
                      ELSE /\ asm_pc' = "aborted"
                           /\ asm_exc' = r.exc
                           /\ UNCHANGED <<binary_file, stdout>>
    /\ UNCHANGED source
    /\ UNCHANGED run_vars

\* One iteration of the for loop over the lines of the source.
AssembleLine ==
    /\ asm_pc = "loop"
    /\ line_no < Len(source)
    /\ LET line == source[line_no + 1]
           r == parse_instruction(line)
       IN  /\ line_no' = line_no + 1
           /\ IF Skipped(line)
              THEN UNCHANGED <<asm_pc, binary_file, log_file, stdout, asm_exc>>
              ELSE IF r.exc = "none"
              THEN /\ log_file' = Append(log_file,
                                         [instruction |-> line, binary |-> r.binary,
                                          description |-> r.description])
                   /\ binary_file' = binary_file \o r.binary
                   /\ UNCHANGED <<asm_pc, stdout, asm_exc>>
              ELSE IF r.exc = "ValueError"
              THEN /\ stdout' = Append(stdout, line_no + 1)
                   /\ UNCHANGED <<asm_pc, binary_file, log_file, asm_exc>>
              ELSE /\ asm_pc' = "aborted"
                   /\ asm_exc' = r.exc
                   /\ UNCHANGED <<binary_file, log_file, stdout>>
    /\ UNCHANGED source
    /\ UNCHANGED run_vars

\* The source is exhausted: the files are closed and assemble() returns.
AssembleEnd ==
    /\ asm_pc = "loop"
    /\ line_no = Len(source)
    /\ asm_pc' = "done"
    /\ UNCHANGED <<source, line_no, binary_file, log_file, stdout, asm_exc>>
    /\ UNCHANGED run_vars

-----------------------------------------------------------------------------
(* UVMInterpreter *)

ZeroRegisters == [i \in 0..(NumRegs - 1) |-> 0]

ZeroMemory == [a \in 0..(MemSize - 1) |-> 0]

Outcome(regs, mem, exc) == [registers |-> regs, memory |-> mem, exc |-> exc]

\* The register file rebuilt before the assignment.
SetRegister_fresh_list(regs, mem, register, value) ==
    IF PyIndexOk(register, NumRegs)
    THEN Outcome([[i \in 0..(NumRegs - 1) |-> 0] EXCEPT ![PyIndex(register, NumRegs)] = value],
                 mem, "none")
    ELSE Outcome(regs, mem, "IndexError: list assignment index out of range")

\* self.registers[register] = value
SetRegister(regs, mem, register, value) ==
    IF PyIndexOk(register, NumRegs)
    THEN Outcome([regs EXCEPT ![PyIndex(register, NumRegs)] = value], mem, "none")
    ELSE Outcome(regs, mem, "IndexError: list assignment index out of range")

\* self.memory[address] = value
SetMemory(regs, mem, address, value) ==
    IF PyIndexOk(address, MemSize)
    THEN Outcome(regs, [mem EXCEPT ![PyIndex(address, MemSize)] = value], "none")
    ELSE Outcome(regs, mem, "IndexError: list assignment index out of range")

ExecLoadConst(regs, mem, instruction) ==
    LET u == unpack_HB(Tail(instruction))
    IN  IF u.exc # "none" THEN Outcome(regs, mem, u.exc)
        ELSE SetRegister(regs, mem, u.b, u.h)

\* The right-hand side self.memory[address] is read before the register is indexed.
ExecReadMem(regs, mem, instruction) ==
    LET u == unpack_HB(Tail(instruction))
    IN  IF u.exc # "none" THEN Outcome(regs, mem, u.exc)
        ELSE IF ~PyIndexOk(u.h, MemSize)
        THEN Outcome(regs, mem, "IndexError: list index out of range")
        ELSE SetRegister(regs, mem, u.b, mem[PyIndex(u.h, MemSize)])

ExecWriteMem(regs, mem, instruction) ==
    LET u == unpack_HB(Tail(instruction))
    IN  IF u.exc # "none" THEN Outcome(regs, mem, u.exc)
        ELSE SetMemory(regs, mem, u.h, u.b)

\* The register operands taken the other way round.
ExecPopcnt_swapped(regs, mem, instruction) ==
    IF Len(instruction) < 2 THEN Outcome(regs, mem, "IndexError: index out of range")
    ELSE LET reg_b == LowReg(instruction[2])
             reg_c == HighReg(instruction[2])
         IN  SetMemory(regs, mem, regs[reg_c], popcount(regs[reg_b]))

\* instruction[1] raises IndexError on a chunk of one byte.
ExecPopcnt(regs, mem, instruction) ==
    IF Len(instruction) < 2 THEN Outcome(regs, mem, "IndexError: index out of range")
    ELSE LET reg_b == HighReg(instruction[2])
             reg_c == LowReg(instruction[2])
         IN  SetMemory(regs, mem, regs[reg_c], popcount(regs[reg_b]))

\* Only the first register cleared.
ExecResetRegs_first_only(regs, mem, instruction) ==
    Outcome([regs EXCEPT ![0] = 0], mem, "none")

ExecResetRegs(regs, mem, instruction) == Outcome(ZeroRegisters, mem, "none")

\* The address and value registers taken the other way round.
ExecStoreRegIndirect_swapped(regs, mem, instruction) ==
    IF Len(instruction) < 2 THEN Outcome(regs, mem, "IndexError: index out of range")
    ELSE LET reg1 == HighReg(instruction[2])
             reg2 == LowReg(instruction[2])
         IN  SetMemory(regs, mem, regs[reg2], regs[reg1])

ExecStoreRegIndirect(regs, mem, instruction) ==
    IF Len(instruction) < 2 THEN Outcome(regs, mem, "IndexError: index out of range")
    ELSE LET reg1 == HighReg(instruction[2])
             reg2 == LowReg(instruction[2])
         IN  SetMemory(regs, mem, regs[reg1], regs[reg2])

\* An opcode that no branch names falls through the if chain: nothing happens.
ExecOther(regs, mem, instruction) == Outcome(regs, mem, "none")

execute_instruction(regs, mem, instruction) ==
    LET opcode == instruction[1]
    IN  IF opcode = 41 THEN ExecLoadConst(regs, mem, instruction)
        ELSE IF opcode = 79 THEN ExecReadMem(regs, mem, instruction)
        ELSE IF opcode = 168 THEN ExecWriteMem(regs, mem, instruction)
        ELSE IF opcode = 226 THEN ExecPopcnt(regs, mem, instruction)
        ELSE IF opcode = 201 THEN ExecResetRegs(regs, mem, instruction)
        ELSE IF opcode = 4 THEN ExecStoreRegIndirect(regs, mem, instruction)
        ELSE ExecOther(regs, mem, instruction)

\* read(2) in place of read(4).
ReadChunk_two_bytes(file, p) ==
    SubSeq(file, p + 1, IF p + 2 < Len(file) THEN p + 2 ELSE Len(file))

\* binary_file.read(4) at position p: up to four bytes, fewer at the end of the file.
ReadChunk(file, p) ==
    SubSeq(file, p + 1, IF p + ChunkSize < Len(file) THEN p + ChunkSize ELSE Len(file))

\* The rows write_results writes: the registers, then the memory range up to the
\* first address that is no index of the memory.
RegisterRows(regs) == [i \in 1..NumRegs |-> <<"reg", i - 1, regs[i - 1]>>]

RECURSIVE MemoryRows(_, _, _)
MemoryRows(mem, address, last) ==
    IF address > last \/ ~PyIndexOk(address, MemSize) THEN << >>
    ELSE <<(<<"mem", address, mem[PyIndex(address, MemSize)]>>)>>
         \o MemoryRows(mem, address + 1, last)

ResultHeader == <<"header", 0, 0>>

write_results(regs, mem, range) ==
    [rows |-> <<ResultHeader>> \o RegisterRows(regs) \o MemoryRows(mem, range[1], range[2]),
     exc |-> IF \E a \in range[1]..range[2] : ~PyIndexOk(a, MemSize)
             THEN "IndexError: list index out of range" ELSE "none"]

\* What the observer records of an instance: its state, and the rows it has
\* written to the result file (none before write_results).
Snapshot(regs, mem, pc, exc, rows) ==
    [registers |-> regs, memory |-> mem, run_pc |-> pc, run_exc |-> exc,
     written |-> rows]

\* A new instance starts a new run of the history.
Started(h, range, snap) ==
    IF h.on THEN [h EXCEPT !.runs = Append(@, [memory_range |-> range, states |-> <<snap>>])]
    ELSE h

\* The instance running made a step.
Observed(h, snap) ==
    IF h.on THEN [h EXCEPT !.runs[Len(h.runs)].states = Append(@, snap)] ELSE h

\* memory and registers as attributes of the class, shared by its instances.
InterpreterInit_shared_state ==
    /\ run_pc = "none"
    /\ asm_pc \in {"none", "done", "aborted"}
    /\ \E range \in MemoryRanges :
          /\ memory_range' = range
          /\ history' = Started(history, range,
                                Snapshot(registers, memory, "run", "none", << >>))
    /\ run_pc' = "run"
    /\ pos' = 0
    /\ UNCHANGED <<memory, registers, result_file, run_exc, executed>>
    /\ UNCHANGED asm_vars

\* UVMInterpreter.__init__, and run() opening the binary file.
InterpreterInit ==
    /\ run_pc = "none"
    /\ asm_pc \in {"none", "done", "aborted"}
    /\ \E range \in MemoryRanges :
          /\ memory_range' = range
          /\ history' = Started(history, range,
                                Snapshot(ZeroRegisters, ZeroMemory, "run", "none", << >>))
    /\ memory' = ZeroMemory
    /\ registers' = ZeroRegisters
    /\ run_pc' = "run"
    /\ pos' = 0
    /\ UNCHANGED <<result_file, run_exc, executed>>
    /\ UNCHANGED asm_vars

\* One iteration of the while loop of run(): read(4) returns a chunk, which is executed.
RunStep ==
    /\ run_pc = "run"
    /\ pos < Len(binary_file)
    /\ LET instruction == ReadChunk(binary_file, pos)
           r == execute_instruction(registers, memory, instruction)
       IN  /\ pos' = pos + Len(instruction)
           /\ executed' = Append(executed, instruction)
           /\ registers' = r.registers
           /\ memory' = r.memory
           /\ run_exc' = r.exc
           /\ run_pc' = IF r.exc = "none" THEN "run" ELSE "failed"
           /\ history' = Observed(history,
                                  Snapshot(r.registers, r.memory,
                                           IF r.exc = "none" THEN "run" ELSE "failed",
                                           r.exc, << >>))
    /\ UNCHANGED <<memory_range, result_file>>
    /\ UNCHANGED asm_vars

\* read(4) returns no bytes: the loop ends and write_results() runs.
RunEnd ==
    /\ run_pc = "run"
    /\ pos >= Len(binary_file)
    /\ LET w == write_results(registers, memory, memory_range)
       IN  /\ result_file' = w.rows
           /\ run_exc' = w.exc
           /\ run_pc' = IF w.exc = "none" THEN "halted" ELSE "failed"
           /\ history' = Observed(history,
                                  Snapshot(registers, memory,
                                           IF w.exc = "none" THEN "halted" ELSE "failed",
                                           w.exc, w.rows))
    /\ UNCHANGED <<pos, registers, memory, memory_range, executed>>
    /\ UNCHANGED asm_vars

\* The run is over and the binary is run once more: the process of the first run
\* is gone, the result file stays, and main() builds a second UVMInterpreter.
NewInstance ==
    /\ run_pc \in {"halted", "failed"}
    /\ Len(history.runs) = 1
    /\ run_pc' = "none"
    /\ run_exc' = "none"
    /\ pos' = 0
    /\ executed' = << >>
    /\ UNCHANGED <<registers, memory, memory_range, result_file, history>>
    /\ UNCHANGED asm_vars

-----------------------------------------------------------------------------
(* Specifications *)

\* The assembler on a program, then the interpreter on the binary it wrote.
Init ==
    /\ source \in Programs
    /\ asm_pc = "init"
    /\ line_no = 0
    /\ binary_file = << >>
    /\ log_file = << >>
    /\ stdout = << >>
    /\ asm_exc = "none"
    /\ run_pc = "none"
    /\ pos = 0
    /\ registers = ZeroRegisters
    /\ memory = ZeroMemory
    /\ memory_range = <<0, 0>>
    /\ result_file = << >>
    /\ run_exc = "none"
    /\ executed = << >>
    /\ history = [on |-> FALSE, runs |-> << >>]

Next ==
    \/ AssembleOpen
    \/ AssembleLine
    \/ AssembleEnd
    \/ InterpreterInit
    \/ RunStep
    \/ RunEnd

Spec == Init /\ [][Next]_vars

\* The interpreter on any byte stream.
InitRun ==
    /\ source = << >>
    /\ asm_pc = "none"
    /\ line_no = 0
    /\ binary_file \in RawStreams
    /\ log_file = << >>
    /\ stdout = << >>
    /\ asm_exc = "none"
    /\ run_pc = "none"
    /\ pos = 0
    /\ registers = ZeroRegisters
    /\ memory = ZeroMemory
    /\ memory_range = <<0, 0>>
    /\ result_file = << >>
    /\ run_exc = "none"
    /\ executed = << >>
    /\ history = [on |-> FALSE, runs |-> << >>]

NextRun ==
    \/ InterpreterInit
    \/ RunStep
    \/ RunEnd

SpecRun == InitRun /\ [][NextRun]_vars

\* The assembler and the interpreter on every single instruction of the codec.
InitCodec ==
    /\ source \in { <<line>> : line \in CodecLines }
    /\ asm_pc = "init"
    /\ line_no = 0
    /\ binary_file = << >>
    /\ log_file = << >>
    /\ stdout = << >>
    /\ asm_exc = "none"
    /\ run_pc = "none"
    /\ pos = 0
    /\ registers = ZeroRegisters
    /\ memory = ZeroMemory
    /\ memory_range = <<0, 0>>
    /\ result_file = << >>
    /\ run_exc = "none"
    /\ executed = << >>
    /\ history = [on |-> FALSE, runs |-> << >>]

SpecCodec == InitCodec /\ [][Next]_vars

\* The lines the programs that are run twice are built from.
TwiceLines ==
    { <<I(41), I(0), I(5)>>, <<I(79), I(1), I(10)>>, <<I(168), I(10), I(7)>>,
      <<I(168), I(2000), I(7)>>, <<I(4), I(0), I(0)>>, <<I(201)>> }

TwicePrograms ==
    SeqsUpTo(TwiceLines, MaxLines) \cup Examples \cup { <<line>> : line \in CodecLines }

\* The assembler on a program, then two interpreter instances, one after the other,
\* on the binary it wrote, with the observer on.
InitTwice ==
    /\ source \in TwicePrograms
    /\ asm_pc = "init"
    /\ line_no = 0
    /\ binary_file = << >>
    /\ log_file = << >>
    /\ stdout = << >>
    /\ asm_exc = "none"
    /\ run_pc = "none"
    /\ pos = 0
    /\ registers = ZeroRegisters
    /\ memory = ZeroMemory
    /\ memory_range = <<0, 0>>
    /\ result_file = << >>
    /\ run_exc = "none"
    /\ executed = << >>
    /\ history = [on |-> TRUE, runs |-> << >>]

NextTwice ==
    \/ AssembleOpen
    \/ AssembleLine
    \/ AssembleEnd
    \/ InterpreterInit
    \/ RunStep
    \/ RunEnd
    \/ NewInstance

SpecTwice == InitTwice /\ [][NextTwice]_vars

-----------------------------------------------------------------------------
(* The instruction table of the specification *)

Opcodes == {41, 79, 168, 226, 201, 4}

DeclaredSize(opcode) ==
    IF opcode \in {41, 79, 168} THEN 4 ELSE IF opcode \in {226, 4} THEN 2 ELSE 1

AllInts(line) == \A k \in 1..Len(line) : line[k].kind = "int"

KnownOpcode(line) == line # << >> /\ line[1].kind = "int" /\ line[1].val \in Opcodes

UnknownOpcode(line) == line # << >> /\ line[1].kind = "int" /\ line[1].val \notin Opcodes

\* The operand count the table gives the line's opcode.
RightCount(line) == Len(line) = (IF line[1].val = 201 THEN 1 ELSE 3)

\* Every operand fits its declared width.
InRange(line) ==
    LET opcode == line[1].val
    IN  IF opcode \in {41, 79} THEN line[2].val \in 0..7 /\ line[3].val \in 0..65535
        ELSE IF opcode = 168 THEN line[2].val \in 0..65535 /\ line[3].val \in 0..255
        ELSE IF opcode \in {226, 4} THEN line[2].val \in 0..7 /\ line[3].val \in 0..7
        ELSE TRUE

ValidLine(line) == KnownOpcode(line) /\ AllInts(line) /\ RightCount(line) /\ InRange(line)

\* A known opcode with its operands present as integers, one of them out of range.
OutOfRangeLine(line) ==
    KnownOpcode(line) /\ AllInts(line) /\ RightCount(line) /\ ~InRange(line)

\* A line that is no instruction of the table, for any of the listed reasons.
Malformed(line) == ~Skipped(line) /\ ~ValidLine(line)

\* The instruction a valid line states, operands in the order of the line.
LineInstr(line) ==
    [ok |-> TRUE, opcode |-> line[1].val,
     a |-> IF Len(line) >= 2 THEN line[2].val ELSE 0,
     b |-> IF Len(line) >= 3 THEN line[3].val ELSE 0]

\* The bytes the table gives a valid line.
TableBytes(line) ==
    LET opcode == line[1].val
    IN  IF opcode \in {41, 79}
        THEN <<opcode, line[3].val % 256, line[3].val \div 256, line[2].val>>
        ELSE IF opcode = 168
        THEN <<opcode, line[2].val % 256, line[2].val \div 256, line[3].val>>
        ELSE IF opcode \in {226, 4} THEN <<opcode, line[2].val * 8 + line[3].val>>
        ELSE <<opcode>>

\* The number of 1 bits of a 16 bit value.
Ones(x) == Cardinality({ k \in 0..15 : (x \div (2 ^ k)) % 2 = 1 })

\* The table semantics of one valid line on a state; ok turns FALSE when the line
\* addresses a cell outside the memory, where the table says nothing.
TableStep(st, line) ==
    LET opcode == line[1].val
        a == IF Len(line) >= 2 THEN line[2].val ELSE 0
        b == IF Len(line) >= 3 THEN line[3].val ELSE 0
        target == IF opcode = 79 THEN b
                  ELSE IF opcode = 168 THEN a
                  ELSE IF opcode = 226 THEN st.registers[b]
                  ELSE IF opcode = 4 THEN st.registers[a]
                  ELSE 0
    IN  IF ~st.ok \/ target \notin 0..(MemSize - 1) THEN [st EXCEPT !.ok = FALSE]
        ELSE IF opcode = 41 THEN [st EXCEPT !.registers[a] = b]
        ELSE IF opcode = 79 THEN [st EXCEPT !.registers[a] = st.memory[b]]
        ELSE IF opcode = 168 THEN [st EXCEPT !.memory[a] = b]
        ELSE IF opcode = 226
        THEN [st EXCEPT !.memory[st.registers[b]] = Ones(st.registers[a])]
        ELSE IF opcode = 201 THEN [st EXCEPT !.registers = [i \in 0..7 |-> 0]]
        ELSE [st EXCEPT !.memory[st.registers[a]] = st.registers[b]]

RECURSIVE TableRun(_, _)
TableRun(lines, n) ==
    IF n = 0
    THEN [ok |-> TRUE, registers |-> [i \in 0..7 |-> 0],
          memory |-> [a \in 0..(MemSize - 1) |-> 0]]
    ELSE TableStep(TableRun(lines, n - 1), lines[n])

\* The loop of run() has read the whole file.
LoopDone == run_pc = "run" /\ pos >= Len(binary_file)

\* run() failed inside its loop, before write_results.
LoopFailed == run_pc = "failed" /\ result_file = << >>

IsIn(x, seq) == \E k \in 1..Len(seq) : seq[k] = x

HasRow(line) == \E k \in 2..Len(log_file) : log_file[k].instruction = line

-----------------------------------------------------------------------------
(* C1: for a binary that is the concatenation of valid encodings, in any mix, the  *)
(* instructions run() executes are the instructions encoded, one per declared size, *)
(* and the registers and memory after the loop are those of the table semantics     *)
(* applied in order.                                                                *)
C1_RunFollowsTable ==
    (/\ asm_pc = "done"
     /\ \A i \in 1..Len(source) : ValidLine(source[i])
     /\ TableRun(source, Len(source)).ok)
    => /\ ~LoopFailed
       /\ LoopDone =>
            /\ executed = [i \in 1..Len(source) |-> TableBytes(source[i])]
            /\ registers = TableRun(source, Len(source)).registers
            /\ memory = TableRun(source, Len(source)).memory

-----------------------------------------------------------------------------
\* The operands execute_instruction unpacks from an encoded instruction, in the
\* order of the source line.
Decode(bytes) ==
    LET opcode == bytes[1]
        u == unpack_HB(Tail(bytes))
    IN  IF opcode \in {41, 79}
        THEN [ok |-> u.exc = "none", opcode |-> opcode, a |-> u.b, b |-> u.h]
        ELSE IF opcode = 168
        THEN [ok |-> u.exc = "none", opcode |-> opcode, a |-> u.h, b |-> u.b]
        ELSE IF opcode \in {226, 4}
        THEN [ok |-> Len(bytes) = 2, opcode |-> opcode,
              a |-> HighReg(bytes[2]), b |-> LowReg(bytes[2])]
        ELSE [ok |-> Len(bytes) = 1, opcode |-> opcode, a |-> 0, b |-> 0]

(* C2: round trip: every valid line (any of the six opcodes, operands in their     *)
(* declared ranges) is encoded, and decoding its bytes the way execute_instruction *)
(* unpacks them gives back the opcode and the operands of the line.                *)
C2_RoundTrip ==
    /\ \A i \in 1..line_no : ValidLine(source[i]) => HasRow(source[i])
    /\ \A k \in 2..Len(log_file) :
          ValidLine(log_file[k].instruction)
          => Decode(log_file[k].binary) = LineInstr(log_file[k].instruction)

C2_Witness ==
    \E k \in 2..Len(log_file) :
        /\ log_file[k].instruction = <<I(41), I(3), I(300)>>
        /\ log_file[k].binary = <<41, 44, 1, 3>>
        /\ Decode(log_file[k].binary) = [ok |-> TRUE, opcode |-> 41, a |-> 3, b |-> 300]

-----------------------------------------------------------------------------
(* C3: every line the assembler accepts is encoded in exactly the bytes of the     *)
(* table: the opcode, then 16 bit fields low byte first followed by the 8 bit      *)
(* field, or the packed byte first register * 8 + second register.                 *)
C3_ByteExact ==
    \A k \in 2..Len(log_file) :
        LET line == log_file[k].instruction
        IN  /\ Len(log_file[k].binary) = DeclaredSize(line[1].val)
            /\ log_file[k].binary = TableBytes(line)

-----------------------------------------------------------------------------
\* The bytes the lines 1..n of the source contribute: those of the lines that are
\* neither skipped nor rejected, in order.
RECURSIVE AssembledBytes(_)
AssembledBytes(n) ==
    IF n = 0 THEN << >>
    ELSE AssembledBytes(n - 1)
         \o (IF \/ Skipped(source[n])
                \/ UnknownOpcode(source[n])
                \/ parse_instruction(source[n]).exc # "none"
             THEN << >>
             ELSE parse_instruction(source[n]).binary)

(* C4: a line with an unknown opcode is reported and excluded, assemble() goes on  *)
(* with the next line, and the binary is the concatenation of the encodings of the *)
(* assembled lines in their original order.                                        *)
C4_PartialSuccess ==
    /\ \A i \in 1..line_no :
          UnknownOpcode(source[i])
          => /\ IsIn(i, stdout)
             /\ ~HasRow(source[i])
             /\ ~(asm_pc = "aborted" /\ i = line_no)
    /\ asm_pc \in {"loop", "done"} => binary_file = AssembledBytes(line_no)

C4_Witness ==
    /\ source = << <<I(41), I(0), I(100)>>, <<I(999), I(1), I(2)>>, <<I(201)>> >>
    /\ asm_pc = "done"
    /\ stdout = <<2>>
    /\ binary_file = <<41, 100, 0, 0, 201>>

-----------------------------------------------------------------------------
(* C5: a line with a known opcode and an operand outside its declared width        *)
(* (constant or address 0..65535, memory value 0..255, register 0..7) is rejected  *)
(* as a line-level error and contributes no bytes.                                 *)
C5_OperandValidation ==
    \A i \in 1..line_no :
        OutOfRangeLine(source[i])
        => /\ IsIn(i, stdout)
           /\ ~HasRow(source[i])
           /\ ~(asm_pc = "aborted" /\ i = line_no)

-----------------------------------------------------------------------------
(* C6: whatever makes a line malformed (unknown opcode, non-numeric token, too few *)
(* or too many tokens, out-of-range value), assemble() does not abort and the line *)
(* is excluded from the output.                                                    *)
C6_SkipAndContinue ==
    \A i \in 1..line_no :
        Malformed(source[i]) => asm_pc # "aborted" /\ ~HasRow(source[i])

-----------------------------------------------------------------------------
(* C7: an instruction whose opcode byte is none of 41, 79, 168, 226, 201, 4 aborts *)
(* the run: it is the last one executed and the run has failed.                    *)
C7_UnknownOpcodeFatal ==
    \A k \in 1..Len(executed) :
        executed[k][1] \notin Opcodes => run_pc = "failed" /\ k = Len(executed)

-----------------------------------------------------------------------------
\* The stream from position p on is valid encodings of which the last is cut short.
RECURSIVE Truncated(_, _)
Truncated(stream, p) ==
    /\ p < Len(stream)
    /\ stream[p + 1] \in Opcodes
    /\ IF p + DeclaredSize(stream[p + 1]) > Len(stream) THEN TRUE
       ELSE Truncated(stream, p + DeclaredSize(stream[p + 1]))

(* C8: a stream whose last instruction has fewer bytes than its opcode declares    *)
(* never ends normally: the loop of run() does not finish on it.                   *)
C8_TruncatedFatal ==
    Truncated(binary_file, 0) => ~LoopDone /\ run_pc # "halted"

-----------------------------------------------------------------------------
AccessFaults ==
    { "IndexError: list assignment index out of range",
      "IndexError: list index out of range" }

(* C9: running an artifact the assembler produced, with a report range inside the  *)
(* memory, every register index is in 0..7 and every memory address in 0..1023: no *)
(* access to the registers or the memory faults.                                   *)
C9_NoAccessFault ==
    (memory_range[1] \in 0..(MemSize - 1) /\ memory_range[2] \in 0..(MemSize - 1))
    => run_exc \notin AccessFaults

-----------------------------------------------------------------------------
(* C10: executing opcode 201 in any state sets all 8 registers to 0 and leaves     *)
(* every memory cell unchanged.                                                    *)
C10_ResetRegs ==
    [][ (/\ run_pc = "run"
         /\ pos < Len(binary_file)
         /\ ReadChunk(binary_file, pos)[1] = 201
         /\ executed' = Append(executed, ReadChunk(binary_file, pos)))
        => (/\ \A i \in 0..7 : registers'[i] = 0
            /\ DOMAIN registers' = 0..7
            /\ memory' = memory
            /\ run_pc' = "run") ]_vars

\* LOAD_CONST reg=0 const=5 and a write to memory, then RESET_REGS.
C10_Witness ==
    /\ executed = << <<168, 10, 0, 7>>, <<41, 5, 0, 0>>, <<201>> >>
    /\ registers[0] = 0
    /\ memory[10] = 7

-----------------------------------------------------------------------------
\* A step of run() executes a chunk that starts with this opcode.
Executes(opcode) ==
    /\ run_pc = "run"
    /\ pos < Len(binary_file)
    /\ ReadChunk(binary_file, pos)[1] = opcode
    /\ executed' = Append(executed, ReadChunk(binary_file, pos))

\* The register fields of the packed byte of the chunk being executed.
PackedHigh == (ReadChunk(binary_file, pos)[2] \div 8) % 8

PackedLow == ReadChunk(binary_file, pos)[2] % 8

(* C11: executing opcode 226 with registers reg_b and reg_c, the target address    *)
(* registers[reg_c] inside the memory, sets memory[registers[reg_c]] to the number *)
(* of 1 bits of registers[reg_b].                                                  *)
C11_Popcnt ==
    [][ (/\ Executes(226)
         /\ Len(ReadChunk(binary_file, pos)) >= 2
         /\ registers[PackedLow] \in 0..(MemSize - 1))
        => (/\ memory'[registers[PackedLow]] = Ones(registers[PackedHigh])
            /\ run_pc' = "run") ]_vars

\* Register 0 holds 7, register 1 holds 10, and POPCNT 0 1 has run.
C11_Witness ==
    /\ executed = << <<41, 7, 0, 0>>, <<41, 10, 0, 1>>, <<226, 1>> >>
    /\ registers[0] = 7
    /\ registers[1] = 10
    /\ memory[10] = 3

-----------------------------------------------------------------------------
(* C12: on a stream of valid encodings the loop of run() ends, and the number of   *)
(* execute steps it has made is the number of instructions encoded.                *)
C12_StepCount ==
    (/\ asm_pc = "done"
     /\ \A i \in 1..Len(source) : ValidLine(source[i])
     /\ TableRun(source, Len(source)).ok)
    => /\ ~LoopFailed
       /\ LoopDone => Len(executed) = Len(source)

-----------------------------------------------------------------------------
\* The line is empty after strip() or its first character is '#'.
BlankOrComment(line) == line = << >> \/ line[1].kind = "hash"

(* C13: a blank line or a comment line gives no instruction, no log record and no  *)
(* error; every other line gives exactly one of them; a source of only such lines  *)
(* gives an empty binary and a log without instruction records.                    *)
C13_SkipBlankAndComment ==
    /\ \A i \in 1..line_no :
          BlankOrComment(source[i])
          => ~IsIn(i, stdout) /\ ~(asm_pc = "aborted" /\ i = line_no)
    /\ asm_pc \in {"loop", "done", "aborted"}
       => (Len(log_file) - 1) + Len(stdout) + (IF asm_pc = "aborted" THEN 1 ELSE 0)
          = Cardinality({ i \in 1..line_no : ~BlankOrComment(source[i]) })
    /\ (asm_pc \in {"loop", "done"} /\ \A i \in 1..line_no : BlankOrComment(source[i]))
       => binary_file = << >> /\ log_file = <<LogHeader>>

C13_Witness ==
    /\ source = << << >>, <<H, W>>, << >> >>
    /\ asm_pc = "done"
    /\ binary_file = << >>
    /\ log_file = <<LogHeader>>
    /\ stdout = << >>

-----------------------------------------------------------------------------
\* The lines among 1..n of the source that are assembled, in order.
RECURSIVE AssembledLines(_)
AssembledLines(n) ==
    IF n = 0 THEN << >>
    ELSE AssembledLines(n - 1)
         \o (IF ~BlankOrComment(source[n]) /\ parse_instruction(source[n]).exc = "none"
             THEN <<source[n]>> ELSE << >>)

RECURSIVE RowBytes(_)
RowBytes(n) == IF n <= 1 THEN << >> ELSE RowBytes(n - 1) \o log_file[n].binary

(* C14: after any prefix of the lines, the log holds one record per assembled      *)
(* line, in order, each with the bytes of that line, and the binary is those bytes *)
(* in the same order; a rejected line adds neither.                                *)
C14_LogParallel ==
    asm_pc \in {"loop", "done", "aborted"}
    => /\ Len(log_file) = 1 + Len(AssembledLines(line_no))
       /\ \A k \in 2..Len(log_file) :
             /\ log_file[k].instruction = AssembledLines(line_no)[k - 1]
             /\ log_file[k].binary = parse_instruction(log_file[k].instruction).binary
       /\ binary_file = RowBytes(Len(log_file))

C14_Witness ==
    /\ line_no = 3
    /\ stdout = <<2>>
    /\ Len(log_file) = 3
    /\ log_file[2].binary = <<41, 100, 0, 0>>
    /\ log_file[3].binary = <<201>>
    /\ binary_file = <<41, 100, 0, 0, 201>>

-----------------------------------------------------------------------------
(* C16: for a line "4 reg1 reg2" with both indices in 0..7 the assembler packs     *)
(* reg1 into bits 3-5 and reg2 into bits 0-2 and describes reg2 as the value and   *)
(* reg1 as the address register; executing the packed byte stores registers[reg2]  *)
(* at memory[registers[reg1]].                                                     *)
C16_StoreRoles ==
    /\ [](\A k \in 2..Len(log_file) :
            LET line == log_file[k].instruction
            IN  (ValidLine(line) /\ line[1].val = 4)
                => /\ log_file[k].binary = <<4, line[2].val * 8 + line[3].val>>
                   /\ log_file[k].description
                        = <<"store_reg_indirect", line[3].val, line[2].val>>)
    /\ [][ (/\ Executes(4)
            /\ Len(ReadChunk(binary_file, pos)) >= 2
            /\ registers[PackedHigh] \in 0..(MemSize - 1))
           => memory' = [memory EXCEPT ![registers[PackedHigh]] = registers[PackedLow]]
         ]_vars

\* "4 3 0" after register 0 holds 5 and register 3 holds 300.
C16_Witness ==
    /\ source = << <<I(41), I(0), I(5)>>, <<I(41), I(3), I(300)>>, <<I(4), I(3), I(0)>> >>
    /\ executed = << <<41, 5, 0, 0>>, <<41, 44, 1, 3>>, <<4, 24>> >>
    /\ memory[300] = 5

-----------------------------------------------------------------------------
\* The 16 bit field and the 8 bit field of the chunk being executed.
FieldWord == ReadChunk(binary_file, pos)[2] + 256 * ReadChunk(binary_file, pos)[3]

FieldByte == ReadChunk(binary_file, pos)[4]

RegistersExcept(i) == \A j \in 0..7 : j # i => registers'[j] = registers[j]

MemoryExcept(a) == \A c \in 0..(MemSize - 1) : c # a => memory'[c] = memory[c]

(* C17: LOAD_CONST and READ_MEM change only the addressed register and no memory   *)
(* cell; WRITE_MEM, POPCNT and STORE_REG_INDIRECT change only the addressed memory *)
(* cell and no register.                                                           *)
C17_Frame ==
    [][ /\ (Executes(41) \/ Executes(79))
           => /\ memory' = memory
              /\ Len(ReadChunk(binary_file, pos)) = 4 => RegistersExcept(FieldByte)
              /\ Len(ReadChunk(binary_file, pos)) < 4 => registers' = registers
        /\ Executes(168)
           => /\ registers' = registers
              /\ Len(ReadChunk(binary_file, pos)) = 4 => MemoryExcept(FieldWord)
              /\ Len(ReadChunk(binary_file, pos)) < 4 => memory' = memory
        /\ Executes(226)
           => /\ registers' = registers
              /\ Len(ReadChunk(binary_file, pos)) >= 2
                 => MemoryExcept(registers[PackedLow])
              /\ Len(ReadChunk(binary_file, pos)) < 2 => memory' = memory
        /\ Executes(4)
           => /\ registers' = registers
              /\ Len(ReadChunk(binary_file, pos)) >= 2
                 => MemoryExcept(registers[PackedHigh])
              /\ Len(ReadChunk(binary_file, pos)) < 2 => memory' = memory
      ]_vars

\* A third instruction has run and left what the first two wrote.
C17_Witness ==
    /\ executed = << <<168, 10, 0, 7>>, <<41, 5, 0, 0>>, <<41, 44, 1, 3>> >>
    /\ registers[0] = 5
    /\ registers[3] = 300
    /\ memory[10] = 7

-----------------------------------------------------------------------------
(* C19: on a program of 4 byte instructions (opcodes 41, 79, 168), optionally      *)
(* followed by one last 1 or 2 byte instruction, all operands and addresses in     *)
(* range, run() executes every instruction once, in order, and the final state is  *)
(* that of the table semantics applied in program order.                           *)
C19_ChunkAligned ==
    (/\ asm_pc = "done"
     /\ \A i \in 1..Len(source) : ValidLine(source[i])
     /\ \A i \in 1..(Len(source) - 1) : DeclaredSize(source[i][1].val) = 4
     /\ TableRun(source, Len(source)).ok)
    => /\ ~LoopFailed
       /\ LoopDone =>
            /\ executed = [i \in 1..Len(source) |-> TableBytes(source[i])]
            /\ registers = TableRun(source, Len(source)).registers
            /\ memory = TableRun(source, Len(source)).memory

\* Two 4 byte instructions and a final 2 byte POPCNT have run.
C19_Witness ==
    /\ source = << <<I(41), I(0), I(5)>>, <<I(41), I(3), I(300)>>, <<I(226), I(0), I(3)>> >>
    /\ LoopDone
    /\ Len(executed) = 3
    /\ memory[300] = 2

-----------------------------------------------------------------------------
-----------------------------------------------------------------------------
FirstRun == history.runs[1]

SecondRun == history.runs[2]

(* C15: two runs of the same binary, each by a fresh instance, step through the    *)
(* same registers and memory; asked for the same memory range they also stop in    *)
(* the same way at the same step and report the same snapshot.                     *)
C15_Determinism ==
    Len(history.runs) = 2
    => \A k \in 1..Len(SecondRun.states) :
          /\ k <= Len(FirstRun.states)
          /\ SecondRun.states[k].registers = FirstRun.states[k].registers
          /\ SecondRun.states[k].memory = FirstRun.states[k].memory
          /\ SecondRun.memory_range = FirstRun.memory_range
             => SecondRun.states[k] = FirstRun.states[k]

\* The second run has ended as the first did, after steps that changed the state.
C15_Witness ==
    /\ Len(history.runs) = 2
    /\ run_pc = "halted"
    /\ SecondRun = FirstRun
    /\ Len(SecondRun.states) >= 4
    /\ \E i \in 0..7 : registers[i] # 0
    /\ \E a \in 0..(MemSize - 1) : memory[a] # 0

-----------------------------------------------------------------------------
\* The report of an all-zero state for the memory range asked for.
ZeroReport ==
    <<(<<"header", 0, 0>>)>>
    \o [i \in 1..8 |-> <<"reg", i - 1, 0>>]
    \o [k \in 1..(memory_range[2] - memory_range[1] + 1) |->
           <<"mem", memory_range[1] + k - 1, 0>>]

\* An instance that has been constructed and has not made a step.
JustConstructed == run_pc = "run" /\ pos = 0

AllZero ==
    /\ DOMAIN registers = 0..7
    /\ DOMAIN memory = 0..1023
    /\ \A i \in 0..7 : registers[i] = 0
    /\ \A a \in 0..1023 : memory[a] = 0

(* C18 as stated: every instance starts with all 8 registers and all 1024 memory   *)
(* cells 0, and the run of an empty stream ends normally and reports that state.   *)
C18_EmptyStreamHalts ==
    /\ JustConstructed => AllZero
    /\ (binary_file = << >> /\ run_pc \in {"halted", "failed"})
       => run_pc = "halted" /\ AllZero /\ result_file = ZeroReport

(* C18 amended: every instance starts with all 8 registers and all 1024 memory     *)
(* cells 0, and the run of an empty stream, asked for a memory range inside        *)
(* 0..1023, ends normally and reports that state.                                  *)
C18_FreshState ==
    /\ JustConstructed => AllZero
    /\ (/\ binary_file = << >>
        /\ run_pc \in {"halted", "failed"}
        /\ memory_range[1] \in 0..(MemSize - 1)
        /\ memory_range[2] \in 0..(MemSize - 1))
       => run_pc = "halted" /\ AllZero /\ result_file = ZeroReport

\* A second instance has just been constructed after a run that changed the state.
C18_Witness ==
    /\ Len(history.runs) = 2
    /\ JustConstructed
    /\ AllZero
    /\ \E i \in 0..7 : FirstRun.states[Len(FirstRun.states)].registers[i] # 0

====
